---- MODULE Spec2Model ----
(***************************************************************************)
(* Model of goctl-validate's incremental source-merge engine               *)
(* (internal/processor/processor.go, ProcessTypesFile).                    *)
(*                                                                         *)
(* Files are modelled as sequences of lexical chunks ("tokens").  Every    *)
(* regular expression and substring test of the Go code is modelled by a  *)
(* scan over the token sequence that finds what the pattern finds in the   *)
(* text, including non-greedy matches that stop at the first "}" and so    *)
(* cut a declaration short.  go/format is modelled by a recogniser of the  *)
(* token grammar: it fails when the token sequence is not a well-formed    *)
(* file.                                                                   *)
(***************************************************************************)
EXTENDS Integers, Sequences, FiniteSets, TLC

VARIABLES
    src,      \* src[f]: content of source types file f (token sequence) or NoFile
    val,      \* content of validation.go in the directory, or NoFile
    trans,    \* content of translations.go in the directory, or NoFile
    last,     \* record of the last ProcessTypesFile invocation (history)
    runs,     \* number of invocations so far
    edits,    \* number of hand edits so far
    walk,     \* record of the last ProcessPlugin walk (history)
    gen       \* arguments and result of a GenerateValidationCode call

vars == <<src, val, trans, last, runs, edits, walk, gen>>

NoFile == <<[k |-> "nofile", a |-> "", b |-> "", d |-> <<>>]>>

\* ------------------------------------------------------------------ bounds
MaxRuns == 2
MaxEdits == 1

\* ------------------------------------------------------------- sequences
Tok(k, a, b) == [k |-> k, a |-> a, b |-> b, d |-> <<>>]

Range(s) == {s[i] : i \in 1..Len(s)}

RECURSIVE Flatten(_)
Flatten(ss) == IF ss = <<>> THEN <<>> ELSE Head(ss) \o Flatten(Tail(ss))

\* smallest index i >= from with Test(s[i]), or 0
FirstIdx(s, from, Test(_)) ==
    LET S == {i \in from..Len(s) : Test(s[i])}
    IN IF S = {} THEN 0 ELSE CHOOSE i \in S : \A j \in S : i <= j

Count(s, Test(_)) == Cardinality({i \in 1..Len(s) : Test(s[i])})

\* ------------------------------------------------------------------ strings
\* strings.Title on the rule tags of the model (an identifier has one word:
\* its first letter is upper-cased, the rest is kept).
Title(tag) ==
    CASE tag = "uuid"      -> "Uuid"
      [] tag = "idCard"    -> "IdCard"
      [] tag = "ageRange"  -> "AgeRange"
      [] tag = "omitempty" -> "Omitempty"
      [] tag = "mobile"    -> "Mobile"
      [] tag = "idcard"    -> "Idcard"
      [] OTHER             -> tag

\* strings.ToLower(funcName[0:1]) + funcName[1:] on the function names of the model
LowerFirst(name) ==
    CASE name = "Uuid"      -> "uuid"
      [] name = "AgeRange"  -> "ageRange"
      [] name = "Omitempty" -> "omitempty"
      [] name = "Mobile"    -> "mobile"
      [] name = "IdCard"    -> "idCard"
      [] name = "Idcard"    -> "idcard"
      [] OTHER              -> name

\* byte-wise order of the strings that sort.Strings compares
LexOrder == <<"Uuid", "ageRange", "idCard", "idcard", "mobile", "omitempty", "uuid">>

Rank(t) == CHOOSE i \in 1..Len(LexOrder) : LexOrder[i] = t

\* the slice left as the map iteration filled it
NoSort(s) == s

\* sort.Strings of the elements of a set: the result does not depend on the
\* order in which the elements were appended
SortStrings(s) ==
    LET S == Range(s)
        ranked == SelectSeq(LexOrder, LAMBDA t : t \in S)
    IN Flatten([i \in 1..Len(ranked) |->
                  SelectSeq(s, LAMBDA x : x = ranked[i])])

\* strings.HasSuffix(typeSpec.Name.Name, "Req") on the type names of the model
HasSuffixReq(name) == name \in {"LoginReq", "ItemReq", "IdReq", "PingReq"}

\* `for tag := range m`: Go iterates a map in an unspecified order; ord is the
\* order this execution happens to use
MapKeys(m, ord) == SelectSeq(ord, LAMBDA t : t \in m)

\* ------------------------------------------------------ annotation extractor
BuiltInValidators ==
    {"required", "email", "url", "ip", "len", "min", "max", "eq", "ne", "lt",
     "lte", "gt", "gte", "oneof", "numeric", "alpha", "alphanum"}

BuiltInCustomValidators == {"mobile", "idcard"}

isBuiltInValidator(v) == v \in BuiltInCustomValidators \/ v \in BuiltInValidators

\* A field's raw tag is a sequence of key:"value" pairs; the value of the
\* validate key is a comma-separated rule list, here a sequence of rules
\* [n |-> name, p |-> parameter] ("" for none; a rule named "" is an empty
\* token, as left by a trailing comma).
Pair(key, rules) == [key |-> key, rules |-> rules]
Rule(n, p) == [n |-> n, p |-> p]

extractValidateTag(tag) ==
    LET i == FirstIdx(tag, 1, LAMBDA kv : kv.key = "validate")
    IN IF i = 0 THEN <<>> ELSE tag[i].rules

\* ------------------------------------------------------- declaration scanner
IsTypeDecl(t) == t.k = "type"

\* lines 246-256
hasValidateTag(decl) ==
    \E i \in 1..Len(decl.d) : decl.d[i] # <<>> /\ extractValidateTag(decl.d[i]) # <<>>

\* the selection of the first versions of the tool: request structs only
IsCandidateReqOnly(decl) ==
    /\ decl.k = "type"
    /\ decl.b = "struct"
    /\ HasSuffixReq(decl.a)

\* lines 226-260: the struct declarations the file is processed for
IsCandidate(decl) ==
    /\ decl.k = "type"
    /\ decl.b = "struct"
    /\ (hasValidateTag(decl) \/ HasSuffixReq(decl.a))

reqStructsOf(file) ==
    LET ds == SelectSeq(file, IsCandidate)
    IN [i \in 1..Len(ds) |-> ds[i].a]

\* lines 272-284: the custom validators named by one field
FieldCustomTags(field) ==
    LET vt == extractValidateTag(field)
    IN {vt[i].n : i \in {j \in 1..Len(vt) :
                            vt[j].n # "" /\ ~isBuiltInValidator(vt[j].n)}}

\* lines 263-294
DeclCustomTags(decl) == UNION {FieldCustomTags(decl.d[i]) : i \in 1..Len(decl.d)}

sourceCustomTags(file, options) ==
    IF options.EnableCustomValidation
    THEN UNION {DeclCustomTags(file[i]) : i \in {j \in 1..Len(file) : IsCandidate(file[j])}}
    ELSE {}

\* line 287: bytes.Contains(fileContent, "func validate" + Title(tag))
sourceExistingValidations(file, tags) ==
    {t \in tags : \E i \in 1..Len(file) : file[i].k = "func" /\ file[i].a = Title(t)}

\* lines 214-220
hasValidatorImportOf(file) ==
    \E i \in 1..Len(file) :
        file[i].k \in {"import", "importLine"} /\ file[i].a = "validator"

\* --------------------------------------------------------- text templates
\* The constants of processor.go lines 30-186 and the literal pieces written
\* by ProcessTypesFile, as token sequences.
ImportBlock(paths) ==
    <<Tok("importOpen", "", "")>>
    \o [i \in 1..Len(paths) |-> Tok("import", paths[i], "")]
    \o <<Tok("importClose", "", "")>>

\* the switch on options.TranslationLanguage (lines 381-399, 441-451, 522-538,
\* 602-611, 620-629): the cases are "zh", "zh_tw" and "en"; anything else is
\* the default, Simplified Chinese
LangCase(lang) == IF lang \in {"zh", "zh_tw", "en"} THEN lang ELSE "zh"

TranslationImports(lang) ==
    CASE LangCase(lang) = "zh"    -> <<"locales/zh", "ut", "translations/zh">>
      [] LangCase(lang) = "zh_tw" -> <<"locales/zh_Hant_TW", "ut", "translations/zh_tw">>
      [] LangCase(lang) = "en"    -> <<"locales/en", "ut", "translations/en">>

ValidateVarTok == Tok("validateVar", "", "")
TranslationVars == <<Tok("transVars", "", "")>>
ValidationRegisterComment == <<Tok("mapDoc", "", "")>>
MapOpenTok == Tok("mapOpen", "", "")
MobileEntry == Tok("entry", "mobile", "Mobile")
IdCardEntry == Tok("entry", "idcard", "IdCard")
ValidateRegisterMap == <<MapOpenTok, MobileEntry, IdCardEntry>>
CustomValidationMapTemplate(tag) == <<Tok("entry", tag, Title(tag))>>
CloseTop == Tok("close", "0", "")
CloseInner == Tok("close", "1", "")

\* ZhTranslationInit, ZhTwTranslationInit, EnTranslationInit: statements
\* without braces; the first one is `zh := zh.New()` (resp. zh_Hant_TW, en)
TranslationInit(lang) == <<Tok("transInit", LangCase(lang), "")>>

InitHead ==
    <<Tok("comment", "initDoc", ""), Tok("initOpen", "", ""),
      Tok("forOpen", "", ""), Tok("stmt", "register", ""), CloseInner>>

ValidateInitFunc == InitHead \o <<CloseTop>>

BuiltInValidationFunc ==
    <<Tok("doc", "builtin", "mobile"), Tok("funcHead", "Mobile", ""),
      Tok("line", "stmt", "builtin"), Tok("line", "strBrace", "builtin"),
      Tok("line", "retOther", "builtin"), CloseTop,
      Tok("doc", "builtin", "idcard"), Tok("funcHead", "IdCard", ""),
      Tok("line", "stmt", "builtin"), Tok("line", "strBrace", "builtin"),
      Tok("line", "retOther", "builtin"), CloseTop>>

CustomValidationFuncTemplate(tag) ==
    <<Tok("doc", "auto", tag), Tok("funcHead", Title(tag), ""),
      Tok("line", "todo", tag), Tok("line", "retTrue", ""), CloseTop>>

TranslateErrorFunc == <<Tok("translateErr", "", "")>>

Stubs(tags) == Flatten([i \in 1..Len(tags) |-> CustomValidationFuncTemplate(tags[i])])
Entries(tags) == Flatten([i \in 1..Len(tags) |-> CustomValidationMapTemplate(tags[i])])

\* --------------------------------------------------------- pattern matching
\* the token holds a "}" character
HasBrace(t) ==
    \/ t.k \in {"close", "translateErr", "decl", "transReg", "cut"}
    \/ t.k = "line" /\ t.a = "strBrace"

\* the part of token t up to and including its first "}": the token itself
\* when it is a lone "}", a fragment otherwise
UpToBrace(t) == IF t.k = "close" THEN <<t>> ELSE <<Tok("cut", t.k, "head")>>

\* the part of token t after its first "}"
AfterBrace(t) == IF t.k = "close" THEN <<>> ELSE <<Tok("cut", t.k, "tail")>>

\* the match of a pattern `<start token>.*?\}` that starts at index i:
\* through the first "}" after the start token; <<>> when there is none
ThroughBrace(s, i) ==
    LET j == FirstIdx(s, i + 1, HasBrace)
    IN IF j = 0 THEN <<>> ELSE SubSeq(s, i, j - 1) \o UpToBrace(s[j])

\* strings.TrimSuffix(m, "}")
TrimBrace(m) ==
    IF m = <<>> THEN m
    ELSE LET t == m[Len(m)]
         IN IF t.k = "close" THEN SubSeq(m, 1, Len(m) - 1)
            ELSE IF t.k = "cut" /\ t.b = "head"
                 THEN SubSeq(m, 1, Len(m) - 1) \o <<Tok("cut", t.a, "trimmed")>>
                 ELSE m

IsFuncHead(t) == t.k = "funcHead"
IsEntry(t) == t.k = "entry"

\* funcRegex `func validate(\w+)\(fl validator\.FieldLevel\) bool` (lines 324,
\* 663): the names of all validation functions, in file order
FuncNames(s) ==
    LET hs == SelectSeq(s, IsFuncHead) IN [i \in 1..Len(hs) |-> hs[i].a]

\* tagRegex / regRegex `\t"(\w+)":\s*validate\w+,.*` (lines 325, 664)
RegLines(s) == SelectSeq(s, IsEntry)

\* (?s)func validate\w+\(fl validator\.FieldLevel\) bool \{.*?\}  (line 635),
\* FindAllString: successive non-overlapping matches
RECURSIVE FuncMatchesFrom(_, _)
FuncMatchesFrom(s, from) ==
    LET i == FirstIdx(s, from, IsFuncHead)
        j == IF i = 0 THEN 0 ELSE FirstIdx(s, i + 1, HasBrace)
    IN IF i = 0 \/ j = 0 THEN <<>>
       ELSE ThroughBrace(s, i) \o FuncMatchesFrom(s, j + 1)

\* (?s)// 自定义验证方法:.*?return true\n\}  (line 867), FindAllString: each
\* match runs from a generated doc comment to the first `return true` that is
\* directly followed by a "}" in column 0
IsAutoDoc(t) == t.k = "doc" /\ t.a = "auto"

RetTrueEnd(s, i) ==
    /\ i < Len(s)
    /\ s[i].k = "line" /\ s[i].a = "retTrue"
    /\ s[i + 1].k = "close" /\ s[i + 1].a = "0"

RECURSIVE CustomFuncMatchesFrom(_, _)
CustomFuncMatchesFrom(s, from) ==
    LET i == FirstIdx(s, from, IsAutoDoc)
        E == IF i = 0 THEN {} ELSE {j \in i..Len(s) : RetTrueEnd(s, j)}
        j == IF E = {} THEN 0 ELSE CHOOSE x \in E : \A y \in E : x <= y
    IN IF i = 0 \/ j = 0 THEN <<>>
       ELSE <<SubSeq(s, i, j + 1)>> \o CustomFuncMatchesFrom(s, j + 2)

\* ------------------------------------------------------------- go/format
\* format.Source succeeds exactly on syntactically valid files.  The
\* recogniser walks the tokens with the syntactic context as its state.
ParseStep(st, t) ==
    CASE t.k \in {"comment", "doc", "mapDoc"} -> st
      [] t.k = "package" -> IF st = "start" THEN "top0" ELSE "bad"
      [] t.k = "importOpen" -> IF st = "top0" THEN "imp" ELSE "bad"
      [] t.k = "import" -> IF st = "imp" THEN "imp" ELSE "bad"
      [] t.k = "importClose" -> IF st = "imp" THEN "top0" ELSE "bad"
      [] t.k = "importLine" -> IF st = "top0" THEN "top0" ELSE "bad"
      [] t.k \in {"validateVar", "transVars", "translateErr", "type", "method",
                  "func", "decl"} ->
            IF st \in {"top0", "top"} THEN "top" ELSE "bad"
      [] t.k = "mapOpen" -> IF st \in {"top0", "top"} THEN "map" ELSE "bad"
      [] t.k = "entry" -> IF st = "map" THEN "map" ELSE "bad"
      [] t.k = "initOpen" -> IF st \in {"top0", "top"} THEN "init" ELSE "bad"
      [] t.k = "forOpen" -> IF st = "init" THEN "for" ELSE "bad"
      [] t.k \in {"stmt", "transInit"} -> IF st \in {"init", "for"} THEN st ELSE "bad"
      [] t.k = "funcHead" -> IF st \in {"top0", "top"} THEN "func" ELSE "bad"
      [] t.k = "transFuncOpen" -> IF st \in {"top0", "top"} THEN "tfunc" ELSE "bad"
      [] t.k = "transReg" -> IF st = "tfunc" THEN "tfunc" ELSE "bad"
      [] t.k = "ifOpen" -> IF st = "func" THEN "if" ELSE "bad"
      [] t.k = "line" -> IF st \in {"func", "if"} THEN st ELSE "bad"
      [] t.k = "close" ->
            CASE st \in {"map", "init", "func", "tfunc"} -> "top"
              [] st = "for" -> "init"
              [] st = "if" -> "func"
              [] OTHER -> "bad"
      [] OTHER -> "bad"

RECURSIVE ParseFrom(_, _, _)
ParseFrom(s, i, st) ==
    IF st = "bad" THEN "bad"
    ELSE IF i > Len(s) THEN st
    ELSE ParseFrom(s, i + 1, ParseStep(st, s[i]))

\* format.Source(text) returns no error
FormatOK(s) == ParseFrom(s, 1, "start") \in {"top0", "top"}

\* a parser that accepts every file
ParseAlwaysOK(file) == TRUE

\* parser.ParseFile(fset, filePath, fileContent, ...) returns no error
parseFile(file) == FormatOK(file)

\* what format.Source returns for valid text: gofmt normalises the white
\* space of a method signature
FormatTok(t) == IF t.k = "method" /\ t.b = "ws" THEN Tok("method", t.a, "canon") ELSE t

Format(s) == [i \in 1..Len(s) |-> FormatTok(s[i])]

\* ------------------------------------------------- registry: existing file
IsValidateVar(t) == t.k = "validateVar"
NotValidateVar(t) == t.k # "validateVar"

\* validateVarRegex.ReplaceAllString(text, "")  (lines 838-840, 1058-1060)
StripValidateVar(s) == SelectSeq(s, NotValidateVar)

\* the generated text written as it is
KeepValidateVar(s) == s

\* strings.Replace(text, ValidateVar+"\n\n", "", 1)  (line 1040)
RemoveFirstValidateVar(s) ==
    LET i == FirstIdx(s, 1, IsValidateVar)
    IN IF i = 0 THEN s ELSE SubSeq(s, 1, i - 1) \o SubSeq(s, i + 1, Len(s))

\* lines 476-479
hasTranslationOf(s) ==
    /\ \E i \in 1..Len(s) : s[i].k = "transVars"
    /\ \E i \in 1..Len(s) : s[i].k = "transInit"

\* lines 328-352: the tags the first scan of an existing validation.go adds
ScanFuncTags(s) ==
    {LowerFirst(n) : n \in {x \in Range(FuncNames(s)) : x # "Mobile" /\ x # "IdCard"}}

ScanRegTags(s) ==
    {t.a : t \in {x \in Range(RegLines(s)) : x.a # "mobile" /\ x.a # "idcard"}}

\* line 555: registerMapRegex.FindString
registerMapMatchOf(s) ==
    LET i == FirstIdx(s, 1, LAMBDA t : t.k = "mapOpen")
    IN IF i = 0 THEN <<>> ELSE ThroughBrace(s, i)

\* line 593: initFuncRegex.FindString
initFuncMatchOf(s) ==
    LET i == FirstIdx(s, 1, LAMBDA t : t.k = "initOpen")
    IN IF i = 0 THEN <<>> ELSE ThroughBrace(s, i)

\* lines 560-568: the tags the translation upgrade adds to customTags
UpgradeTags(s) == ScanRegTags(registerMapMatchOf(s))

\* lines 482-651: the regenerated text when translation is enabled and the
\* existing file has no translation code
TranslationUpgrade(s, customTags, options, ord) ==
    LET lang == options.TranslationLanguage
        mapMatch == registerMapMatchOf(s)
        tags == customTags \cup UpgradeTags(s)
        localSortedTags == SortStrings(MapKeys(tags, ord))
        initMatch == initFuncMatchOf(s)
    IN  <<Tok("package", "", "")>>
        \o ImportBlock(<<"regexp", "strings", "validator">> \o TranslationImports(lang))
        \o <<ValidateVarTok>>
        \o TranslationVars
        \o (IF mapMatch # <<>>
            THEN mapMatch
            ELSE ValidationRegisterComment \o ValidateRegisterMap
                 \o Entries(localSortedTags) \o <<CloseTop>>)
        \o (IF initMatch # <<>>
            THEN TrimBrace(initMatch) \o TranslationInit(lang) \o <<CloseTop>>
            ELSE InitHead \o TranslationInit(lang) \o <<CloseTop>>)
        \o FuncMatchesFrom(s, 1)
        \o (IF \E n \in Range(FuncNames(s)) : n = "Mobile"
            THEN <<>> ELSE BuiltInValidationFunc)
        \o TranslateErrorFunc

\* lines 658-677
existingFuncsOf(s) == ScanFuncTags(s)

\* lines 680-691
existingRegsOf(s) == ScanRegTags(s)

\* existingRegLines[tag]: the last registration line of the tag
existingRegLine(s, tag) ==
    LET ls == SelectSeq(RegLines(s), LAMBDA t : t.a = tag) IN ls[Len(ls)]

\* lines 694-747: mobile, idcard, then the custom tags that have no
\* registration and the registered tags, sorted
allTagsOf(s, customTags, ord) ==
    LET regs == existingRegsOf(s)
        fresh == MapKeys({t \in customTags :
                            t # "mobile" /\ t # "idcard" /\ t \notin regs}, ord)
        kept == MapKeys({t \in regs : t \notin Range(fresh)}, ord)
        rest == fresh \o kept
    IN <<"mobile", "idcard">> \o (IF Len(rest) > 0 THEN SortStrings(rest) ELSE rest)

\* lines 750-772
newMapContentOf(s, allTags) ==
    ValidationRegisterComment \o <<MapOpenTok>>
    \o Flatten([i \in 1..Len(allTags) |->
         IF allTags[i] = "mobile" THEN <<MobileEntry>>
         ELSE IF allTags[i] = "idcard" THEN <<IdCardEntry>>
         ELSE IF allTags[i] \in existingRegsOf(s)
              THEN <<existingRegLine(s, allTags[i])>>
              ELSE CustomValidationMapTemplate(allTags[i])])
    \o <<CloseTop>>

\* lines 777-787: customTags here already holds the registered tags (726-730)
missingTagsOf(s, customTags, ord) ==
    SortStrings(MapKeys({t \in customTags \cup existingRegsOf(s) :
                           t \notin existingFuncsOf(s)}, ord))

\* lines 794-800: the match of
\*   (?s)// registerValidation.*?var registerValidation = map\[string\]validator\.Func\{.*?\}
\* as [from, open, to]: the tokens from..to, where to holds the closing "}";
\* from = 0 when the pattern does not match
MapMatchSpan(s) ==
    LET D == {d \in 1..Len(s) :
                /\ s[d].k = "mapDoc"
                /\ \E o \in (d + 1)..Len(s) :
                      s[o].k = "mapOpen" /\ \E c \in (o + 1)..Len(s) : HasBrace(s[c])}
        d0 == CHOOSE d \in D : \A e \in D : d <= e
        o0 == FirstIdx(s, d0 + 1, LAMBDA t : t.k = "mapOpen")
        c0 == FirstIdx(s, o0 + 1, HasBrace)
    IN IF D = {} THEN [from |-> 0, to |-> 0] ELSE [from |-> d0, to |-> c0]

\* lines 803-808
tagsToAppendOf(s, allTags) ==
    LET m == MapMatchSpan(s)
        mapMatch == SubSeq(s, m.from, m.to)
    IN SelectSeq(allTags, LAMBDA t :
          /\ t # "mobile" /\ t # "idcard"
          /\ ~\E i \in 1..Len(mapMatch) : mapMatch[i].k = "entry" /\ mapMatch[i].a = t)

\* lines 798-845: splice the new entries before the closing brace of the map,
\* drop the validate variable, append the missing stubs
SpliceMerge(s, tagsToAppend, missingTags) ==
    LET m == MapMatchSpan(s)
        before == SubSeq(s, 1, m.to - 1)
        spliced ==
            IF Len(tagsToAppend) > 0
            THEN before \o TrimBrace(UpToBrace(s[m.to])) \o Entries(tagsToAppend)
                 \o <<CloseTop>> \o AfterBrace(s[m.to]) \o SubSeq(s, m.to + 1, Len(s))
            ELSE s
    IN StripValidateVar(spliced) \o Stubs(missingTags)

\* lines 866-897: the recovered custom functions, sorted by tag
RecoveredFuncs(s) ==
    LET ms == CustomFuncMatchesFrom(s, 1)
        named == SelectSeq(ms, LAMBDA m : \E i \in 1..Len(m) : m[i].k = "funcHead")
        TagOf(m) == LowerFirst(m[FirstIdx(m, 1, IsFuncHead)].a)
        order == SelectSeq(LexOrder, LAMBDA t : \E i \in 1..Len(named) : TagOf(named[i]) = t)
    IN Flatten([i \in 1..Len(order) |->
          Flatten(SelectSeq(named, LAMBDA m : TagOf(m) = order[i]))])

\* lines 846-905: the file is rebuilt when the map literal is not found
FallbackRegenerate(s, allTags, missingTags) ==
    <<Tok("package", "", "")>>
    \o ImportBlock(<<"regexp", "validator">>)
    \o newMapContentOf(s, allTags)
    \o ValidateInitFunc
    \o BuiltInValidationFunc
    \o RecoveredFuncs(s)
    \o Stubs(missingTags)

\* lines 657-905: newValidationContent
MergeRegistry(s, customTags, ord) ==
    LET allTags == allTagsOf(s, customTags, ord)
        missingTags == missingTagsOf(s, customTags, ord)
    IN IF MapMatchSpan(s).from # 0
       THEN SpliceMerge(s, tagsToAppendOf(s, allTags), missingTags)
       ELSE FallbackRegenerate(s, allTags, missingTags)

\* ------------------------------------------------- registry: new file
\* lines 369-472: the text generated when validation.go does not exist
NewRegistryContent(customTags, existingValidations, options, ord) ==
    LET sortedTags == SortStrings(MapKeys(customTags, ord))
        custom == options.EnableCustomValidation /\ customTags # {}
        tr == options.EnableTranslation
        lang == options.TranslationLanguage
    IN  <<Tok("package", "", "")>>
        \o ImportBlock(<<"regexp", "strings", "validator">>
                       \o (IF tr THEN TranslationImports(lang) ELSE <<>>))
        \o <<ValidateVarTok>>
        \o (IF tr THEN TranslationVars ELSE <<>>)
        \o ValidationRegisterComment
        \o ValidateRegisterMap
        \o (IF custom THEN Entries(sortedTags) ELSE <<>>)
        \o <<CloseTop>>
        \o InitHead
        \o (IF tr THEN TranslationInit(lang) ELSE <<>>)
        \o <<CloseTop>>
        \o BuiltInValidationFunc
        \o (IF custom
            THEN Stubs(SelectSeq(sortedTags, LAMBDA t : t \notin existingValidations))
            ELSE <<>>)
        \o (IF tr THEN TranslateErrorFunc ELSE <<>>)

\* ------------------------------------------------- translations.go
\* lines 1135-1173 (CustomTranslationsFunc, lines 113-132)
\* a registration is trans.Add(tag, message, true) followed by
\* validate.RegisterTranslation(tag, ...); b is the message text
CustomTranslationsFunc ==
    <<Tok("transFuncOpen", "", ""),
      Tok("transReg", "mobile", "default"),
      Tok("transReg", "idcard", "default"),
      CloseTop>>

TranslationsFileContent ==
    <<Tok("package", "", "")>>
    \o ImportBlock(<<"validator", "ut">>)
    \o CustomTranslationsFunc

\* the file written whether or not translations.go exists
AlwaysGenerateTranslations(t) == Format(TranslationsFileContent)

\* generateTranslationsFile (lines 1135-1173): the content of translations.go
\* after the call, t being its content before; an existing file is skipped
generateTranslationsFile(t) ==
    IF t # NoFile THEN t ELSE Format(TranslationsFileContent)

\* ------------------------------------------------- entry-point injector
\* findPackagePosition (lines 1124-1132): the offset of the package clause,
\* 0 when nothing precedes it, -1 when there is none
findPackagePosition(file) ==
    LET i == FirstIdx(file, 1, LAMBDA t : t.k = "package")
    IN IF i = 0 THEN -1 ELSE IF i = 1 THEN 0 ELSE i - 1

HasImportDecl(file) ==
    \E i \in 1..Len(file) : file[i].k \in {"importOpen", "importLine"}

\* lines 926-959: fileContent after the validator import is (or is not) added
WithValidatorImport(file, reqStructs) ==
    LET p == FirstIdx(file, 1, LAMBDA t : t.k = "package")
    IN IF /\ ~hasValidatorImportOf(file)
          /\ Len(reqStructs) > 0
          /\ findPackagePosition(file) > 0
          /\ ~HasImportDecl(file)
       THEN SubSeq(file, 1, p) \o ImportBlock(<<"validator">>) \o SubSeq(file, p + 1, Len(file))
       ELSE file

\* line 966: strings.Contains(fileContent, "func (r *"+structName+") Validate()")
HasValidateMethodText(file, structName) ==
    \E i \in 1..Len(file) :
        file[i].k = "method" /\ file[i].a = structName /\ file[i].b = "canon"

\* lines 964-969: the methods appended, in the order of reqStructs
methodsBuilderOf(file, reqStructs) ==
    LET need == SelectSeq(reqStructs, LAMBDA n : ~HasValidateMethodText(file, n))
    IN [i \in 1..Len(need) |-> Tok("method", need[i], "canon")]

\* the token holds a ")" character
HasParen(t) == t.k \in {"importClose", "method", "func", "validateVar", "cut"}

\* the ")" is the last character of the token
EndsWithParen(t) == t.k \in {"importClose", "validateVar"}

\* lines 972-1035: modifiedContent
ModifiedSource(file, methods) ==
    IF \E i \in 1..Len(file) : file[i].k = "validateVar"
    THEN file \o methods
    ELSE LET i == FirstIdx(file, 1, HasParen)
         IN IF i = 0
            THEN file \o <<ValidateVarTok>> \o methods
            ELSE IF EndsWithParen(file[i])
                 THEN SubSeq(file, 1, i) \o <<ValidateVarTok>>
                      \o SubSeq(file, i + 1, Len(file)) \o methods
                 ELSE SubSeq(file, 1, i - 1)
                      \o <<Tok("cut", file[i].k, "head"), ValidateVarTok,
                           Tok("cut", file[i].k, "tail")>>
                      \o SubSeq(file, i + 1, Len(file)) \o methods

\* ------------------------------------------------------------ the handler
NoWalk ==
    [ran |-> FALSE, pre |-> <<>>, visited |-> <<>>, statuses |-> <<>>,
     after |-> <<>>, err |-> "nil"]

NoLast ==
    [status |-> "none", f |-> "",
     options |-> [EnableCustomValidation |-> FALSE, EnableTranslation |-> FALSE,
                  TranslationLanguage |-> ""],
     repeat |-> FALSE,
     preSrc |-> NoFile, preVal |-> NoFile, preTrans |-> NoFile,
     firstWrite |-> NoFile, failed |-> "none",
     writes |-> [src |-> 0, val |-> 0, trans |-> 0],
     attempts |-> [src |-> <<>>, val |-> <<>>]]

\* ProcessTypesFile(filePath, options), lines 189-1076.  ord is the order in
\* which this execution iterates its maps.
\* ProcessTypesFile(f, options) on the files st.src, st.val, st.trans is
\* modelled in four steps, each handing its results to the next:
\* ProcessTypesFileResult (parse and collect), GenerateStep (generate the
\* registry text), MergeStep (merge and inject) and WriteStep (format, write,
\* return).  ord is the iteration order of the Go maps.

\* lines 907-920 and 1000-1073: formatting, the writes and the returned error
WriteStep(st, f, options, parseOK, early, trans1, validationContent, merged, modified, hasMethods, finalNew) ==
    LET file == st.src[f]
        validationExists == st.val # NoFile                        \* 314
        mergeErr == validationExists /\ ~FormatOK(merged)          \* 908-911
        val1 == IF validationExists /\ ~mergeErr THEN Format(merged) ELSE st.val
        srcErr == hasMethods /\ ~FormatOK(modified)
        src1 == IF hasMethods /\ ~srcErr THEN Format(modified) ELSE file
        finalOld == StripValidateVar(validationContent)            \* 1058-1060
        newErr == ~validationExists /\ ~FormatOK(finalNew)         \* 1043-1046
        val2 == IF ~validationExists THEN Format(finalNew)         \* 1049
                ELSE IF FormatOK(finalOld) THEN Format(finalOld)   \* 1063-1067
                ELSE val1
        status == IF ~parseOK THEN "parseError"
                  ELSE IF early THEN "early"
                  ELSE IF mergeErr THEN "mergeFormatError"
                  ELSE IF srcErr THEN "sourceFormatError"
                  ELSE IF newErr THEN "registryFormatError"
                  ELSE "ok"
        \* the file whose generated text format.Source rejected, if any
        failed == CASE status \in {"parseError", "early"} -> "none"
                    [] mergeErr -> "registry"
                    [] srcErr -> "source"
                    [] newErr -> "registry"
                    [] validationExists /\ ~FormatOK(finalOld) -> "registry"
                    [] OTHER -> "none"
        proceeded == status \notin {"parseError", "early"}
        \* the number of os.WriteFile calls on each file
        writes ==
            [trans |-> IF proceeded /\ trans1 # st.trans THEN 1 ELSE 0, \* 1168
             val |-> (IF proceeded /\ validationExists /\ ~mergeErr     \* 913
                      THEN 1 ELSE 0)
                     + (IF status = "ok" /\ (~validationExists          \* 1049
                                             \/ FormatOK(finalOld))     \* 1064
                        THEN 1 ELSE 0),
             src |-> IF status \in {"registryFormatError", "ok"}        \* 988-1027
                        /\ hasMethods THEN 1 ELSE 0]
        \* the format.Source calls on the text of each file, in order: TRUE
        \* for a call that returned no error
        attempts ==
            [val |-> (IF proceeded /\ validationExists               \* 908
                      THEN <<~mergeErr>> ELSE <<>>)
                     \o (IF status \in {"registryFormatError", "ok"}
                         THEN <<IF validationExists
                                THEN FormatOK(finalOld)              \* 1063
                                ELSE FormatOK(finalNew)>>            \* 1043
                         ELSE <<>>),
             src |-> IF hasMethods /\ status \in {"sourceFormatError",
                                                  "registryFormatError", "ok"}
                     THEN <<~srcErr>> ELSE <<>>]                     \* 986-1020
    IN  [trans |-> IF status \in {"parseError", "early"} THEN st.trans ELSE trans1,
         val |-> CASE status \in {"parseError", "early", "mergeFormatError"} -> st.val
                   [] status \in {"sourceFormatError", "registryFormatError"} -> val1
                   [] OTHER -> val2,
         src |-> IF status \in {"registryFormatError", "ok"}
                 THEN [st.src EXCEPT ![f] = src1] ELSE st.src,
         last |-> [status |-> status, f |-> f, options |-> options,
                   repeat |-> /\ st.last.status \in {"ok", "early"}
                              /\ st.last.f = f /\ st.last.options = options,
                   preSrc |-> st.src[f], preVal |-> st.val, preTrans |-> st.trans,
                   firstWrite |-> IF status \in {"sourceFormatError",
                                                 "registryFormatError", "ok"}
                                     /\ validationExists
                                  THEN val1 ELSE NoFile,
                   failed |-> failed,
                   writes |-> writes,
                   attempts |-> attempts]]

\* lines 657-905 and 922-1035: the merge into the existing registry and the
\* methods, import and variable added to the source file
MergeStep(st, f, options, ord, parseOK, early, customTags, trans1, validationContent, newContent, fileContent, methods) ==
    WriteStep(st, f, options, parseOK, early, trans1, validationContent,
              MergeRegistry(validationContent, customTags, ord),   \* 657-905
              ModifiedSource(fileContent, methods),                \* 972-1035
              Len(methods) > 0,
              RemoveFirstValidateVar(newContent))                  \* 1040

\* lines 359-651 and 926-969: the translations file, the text of a new
\* registry, the translation upgrade of an existing one, the methods
GenerateStep(st, f, options, ord, parseOK, early, reqStructs, customTags, existingValidations, fileContent) ==
    MergeStep(st, f, options, ord, parseOK, early, customTags,
              IF options.EnableTranslation                         \* 359-363
              THEN generateTranslationsFile(st.trans) ELSE st.trans,
              IF options.EnableTranslation /\ ~hasTranslationOf(st.val) \* 482
              THEN TranslationUpgrade(st.val, customTags, options, ord)
              ELSE st.val,
              NewRegistryContent(customTags, existingValidations,  \* 369-472
                                 options, ord),
              fileContent,
              methodsBuilderOf(fileContent, reqStructs))           \* 964-969

\* the files and the history record after ProcessTypesFile(f, options) runs
\* on the files st.src, st.val, st.trans
ProcessTypesFileResult(st, f, options, ord) ==
    LET file == st.src[f]
        reqStructs == reqStructsOf(file)                           \* 226-260
        srcTags == sourceCustomTags(file, options)                 \* 263-294
        validationExists == st.val # NoFile                        \* 314
    IN  GenerateStep(st, f, options, ord,
                     parseFile(file),                              \* 203-206
                     Len(reqStructs) = 0 /\ srcTags = {},          \* 300-302
                     reqStructs,
                     srcTags \cup (IF validationExists             \* 328-352
                                   THEN ScanFuncTags(st.val) \cup ScanRegTags(st.val)
                                   ELSE {}),
                     sourceExistingValidations(file, srcTags)
                     \cup (IF validationExists THEN ScanFuncTags(st.val) ELSE {}),
                     WithValidatorImport(file, reqStructs))        \* 926-962

\* the files as one record
Disk == [src |-> src, val |-> val, trans |-> trans, last |-> last]

ProcessTypesFile(f, options, ord) ==
    /\ runs < MaxRuns
    /\ src[f] # NoFile
    /\ \E r \in {ProcessTypesFileResult(Disk, f, options, ord)} :
        /\ runs' = runs + 1
        /\ edits' = edits
        /\ trans' = r.trans
        /\ val' = r.val
        /\ src' = r.src
        /\ last' = r.last
        /\ walk' = NoWalk
        /\ gen' = gen

\* ------------------------------------------------------ plugin walk
\* filepath.Walk visits the files of a directory in lexical order
WalkOrder == <<"types.go", "user.go">>

WalkFiles(s) == SelectSeq(WalkOrder, LAMBDA f : s[f] # NoFile)

\* ProcessTypesFile returned a non-nil error
IsError(status) == status \notin {"ok", "early"}

\* the result of a walk that visited no file
WalkDone(st) ==
    [st |-> st, visited |-> <<>>, statuses |-> <<>>, after |-> <<>>, err |-> "nil"]

\* the result of a walk whose first call, on file f, left r, followed by the
\* walk w of the remaining files
WalkCons(f, r, w) ==
    [st |-> w.st,
     visited |-> <<f>> \o w.visited,
     statuses |-> <<r.last.status>> \o w.statuses,
     after |-> <<r.src[f]>> \o w.after,
     err |-> w.err]

\* a walk that does not stop at an error: it visits every file and returns
\* the error of the last file
RECURSIVE WalkAll(_, _, _, _)
WalkAllFrom(r, files, options, ords) ==
    CHOOSE res \in {WalkCons(Head(files), r,
                             IF Tail(files) = <<>>
                             THEN [WalkDone(r) EXCEPT
                                     !.err = IF IsError(r.last.status)
                                             THEN r.last.status ELSE "nil"]
                             ELSE w) :
                      w \in {WalkAll(r, Tail(files), options, ords)}} : TRUE

WalkAll(st, files, options, ords) ==
    IF files = <<>> THEN WalkDone(st)
    ELSE CHOOSE res \in {WalkAllFrom(r, files, options, ords) :
                           r \in {ProcessTypesFileResult(st, Head(files), options,
                                                         ords[Head(files)])}} : TRUE

\* filepath.Walk(p.Dir, fn) of ProcessPlugin: fn calls ProcessTypesFile on
\* each file in turn; a non-nil error returned by fn ends the walk and is
\* the result of Walk.  visited: the files fn was called on; statuses: what
\* each call returned; after: each file's content when its call returned.
\* (validation.go and translations.go hold no struct: a call on them returns
\* early, lines 300-302, and is left out.)
RECURSIVE Walk(_, _, _, _)
\* the walk once the call on Head(files) has left r
WalkFrom(r, files, options, ords) ==
    IF IsError(r.last.status)
    THEN WalkCons(Head(files), r, [WalkDone(r) EXCEPT !.err = r.last.status])
    ELSE CHOOSE res \in {WalkCons(Head(files), r, w) :
                           w \in {Walk(r, Tail(files), options, ords)}} : TRUE

Walk(st, files, options, ords) ==
    IF files = <<>> THEN WalkDone(st)
    ELSE CHOOSE res \in {WalkFrom(r, files, options, ords) :
                           r \in {ProcessTypesFileResult(st, Head(files), options,
                                                         ords[Head(files)])}} : TRUE

ProcessPlugin(options, ords) ==
    \E w \in {Walk(Disk, WalkFiles(src), options, ords)} :
        /\ runs < MaxRuns
        /\ runs' = runs + 1
        /\ edits' = edits
        /\ src' = w.st.src
        /\ val' = w.st.val
        /\ trans' = w.st.trans
        /\ last' = w.st.last
        /\ walk' = [ran |-> TRUE, pre |-> src, visited |-> w.visited,
                    statuses |-> w.statuses, after |-> w.after, err |-> w.err]
        /\ gen' = gen

\* ------------------------------------------- GenerateValidationCode
\* the three validators of GenerateValidationCode and their tags
GenValidators == {"customValidation", "validateMobile", "validateIdCard"}

GenTag(name) ==
    CASE name = "customValidation" -> "custom_validation"
      [] name = "validateMobile" -> "mobile"
      [] name = "validateIdCard" -> "idcard"

\* funcCode of existingFuncs[name]: "func" is the Go text of a function of
\* that name, "text" is text that is not Go
ExistingFuncCode(name, code) ==
    IF code = "func"
    THEN <<Tok("funcHead", name, "existing"), Tok("line", "retOther", "existing"),
           CloseTop>>
    ELSE <<Tok("text", name, "existing")>>

\* lines 171-181: hasCustomValidation, hasMobileValidation, hasIdCardValidation
hasValidation(existingFuncs, name) == name \in DOMAIN existingFuncs

\* lines 186-202 and 214-238: the validators to register and to define
GenMissing(custom, existingFuncs) ==
    (IF custom /\ ~hasValidation(existingFuncs, "customValidation")
     THEN <<"customValidation">> ELSE <<>>)
    \o (IF ~hasValidation(existingFuncs, "validateMobile")
        THEN <<"validateMobile">> ELSE <<>>)
    \o (IF ~hasValidation(existingFuncs, "validateIdCard")
        THEN <<"validateIdCard">> ELSE <<>>)

\* the registrations written into init (lines 186-202)
GenRegistrations(missing) ==
    Flatten([i \in 1..Len(missing) |->
               <<Tok("comment", "register", GenTag(missing[i])),
                 Tok("stmt", "registerCall", GenTag(missing[i]))>>])

\* function definitions for the validators to define, customValidation left
\* out
GenFuncsNoCustom(missing) ==
    Flatten([i \in 1..Len(missing) |->
               IF missing[i] = "customValidation" THEN <<>>
               ELSE <<Tok("doc", "gen", missing[i]),
                      Tok("funcHead", missing[i], "gen"),
                      Tok("line", "stmt", "gen"), Tok("line", "retOther", "gen"),
                      CloseTop>>])

\* the function definitions written after the existing ones (lines 214-238)
GenFuncs(missing) ==
    Flatten([i \in 1..Len(missing) |->
               <<Tok("doc", "gen", missing[i]),
                 Tok("funcHead", missing[i], "gen"),
                 Tok("line", IF missing[i] = "customValidation"
                             THEN "todo" ELSE "stmt", "gen"),
                 Tok("line", IF missing[i] = "customValidation"
                             THEN "retTrue" ELSE "retOther", "gen"),
                 CloseTop>>])

\* GenerateValidationCode(types, options, existingFuncs), lines 154-247; the
\* argument types is not read; order is the iteration order of existingFuncs.
\* The result is the formatted text, or the unformatted text and an error.
GenerateValidationCode(custom, existingFuncs, order) ==
    LET missing == GenMissing(custom, existingFuncs)
        buf == <<Tok("package", "", "")>>
               \o ImportBlock(<<"regexp", "validator">>)
               \o <<ValidateVarTok, Tok("initOpen", "", "")>>
               \o GenRegistrations(missing)
               \o <<CloseTop>>
               \o Flatten([i \in 1..Len(order) |->
                             ExistingFuncCode(order[i], existingFuncs[order[i]])])
               \o GenFuncs(missing)
    IN  IF FormatOK(buf) THEN [code |-> Format(buf), err |-> FALSE]
        ELSE [code |-> buf, err |-> TRUE]

\* the orders in which a Go map with key set S can be iterated
MapOrders(S) ==
    {p \in [1..Cardinality(S) -> S] : \A i, j \in DOMAIN p : p[i] = p[j] => i = j}

NoGen == [called |-> FALSE, custom |-> FALSE, existingFuncs |-> <<>>,
          code |-> <<>>, err |-> FALSE]

GenerateValidationCodeCall ==
    /\ ~gen.called
    /\ \E order \in MapOrders(DOMAIN gen.existingFuncs) :
         \E r \in {GenerateValidationCode(gen.custom, gen.existingFuncs, order)} :
            gen' = [gen EXCEPT !.called = TRUE, !.code = r.code, !.err = r.err]
    /\ UNCHANGED <<src, val, trans, last, runs, edits, walk>>

\* --------------------------------------------------------- hand edits
\* the index of the "}" that closes the function whose head is at index i
FuncEnd(s, i) == FirstIdx(s, i + 1, LAMBDA t : t.k = "close" /\ t.a = "0")

\* the body of function validate<name> in s: the tokens between its head and
\* its closing brace; <<>> when s has no such function
FuncBody(s, name) ==
    LET i == FirstIdx(s, 1, LAMBDA t : t.k = "funcHead" /\ t.a = name)
        e == IF i = 0 THEN 0 ELSE FuncEnd(s, i)
    IN IF i = 0 \/ e = 0 THEN <<>> ELSE SubSeq(s, i + 1, e - 1)

\* bodies a developer writes: straight-line code, and code with a nested block
HandBodies ==
    {<<Tok("line", "stmt", "hand"), Tok("line", "retOther", "hand")>>,
     <<Tok("ifOpen", "", "hand"), Tok("line", "retOther", "hand"), CloseInner,
       Tok("line", "retTrue", "hand")>>}

IsHandBody(body) == \E i \in 1..Len(body) : body[i].b = "hand"

\* the developer replaces the body of validate<name> in validation.go
HandEdit(name, body) ==
    LET i == FirstIdx(val, 1, LAMBDA t : t.k = "funcHead" /\ t.a = name)
        e == FuncEnd(val, i)
    IN  /\ edits < MaxEdits
        /\ val # NoFile
        /\ i # 0 /\ e # 0
        /\ FuncBody(val, name) # body
        /\ val' = SubSeq(val, 1, i) \o body \o SubSeq(val, e, Len(val))
        /\ edits' = edits + 1
        /\ last' = NoLast
        /\ walk' = NoWalk
        /\ UNCHANGED <<src, trans, runs, gen>>

\* the developer rewrites the message registered for a tag in translations.go
HandEditMessage(tag) ==
    LET i == FirstIdx(trans, 1, LAMBDA t : t.k = "transReg" /\ t.a = tag)
    IN  /\ edits < MaxEdits
        /\ trans # NoFile
        /\ i # 0
        /\ trans[i].b # "hand"
        /\ trans' = [trans EXCEPT ![i] = Tok("transReg", tag, "hand")]
        /\ edits' = edits + 1
        /\ last' = NoLast
        /\ walk' = NoWalk
        /\ UNCHANGED <<src, val, runs, gen>>

\* ------------------------------------------------------------- inputs
TypeTok(name, kind, fields) == [k |-> "type", a |-> name, b |-> kind, d |-> fields]

Json == Pair("json", <<>>)
Validate(rules) == Pair("validate", rules)

\* type LoginReq struct { Mobile string `json:"mobile" validate:"required,mobile"` }
LoginReq ==
    TypeTok("LoginReq", "struct",
            <<<<Json, Validate(<<Rule("required", ""), Rule("mobile", "")>>)>>>>)

\* type Item struct { Name string `json:"name"`; Id string `json:"id" validate:"uuid"` }
Item ==
    TypeTok("Item", "struct",
            <<<<Json>>, <<Json, Validate(<<Rule("uuid", "")>>)>>>>)

\* type ItemReq struct with `required,min=2,max=50` and `omitempty,max=200`
ItemReq ==
    TypeTok("ItemReq", "struct",
            <<<<Json, Validate(<<Rule("required", ""), Rule("min", "2"), Rule("max", "50")>>)>>,
              <<Json, Validate(<<Rule("omitempty", ""), Rule("max", "200")>>)>>>>)

\* type Profile struct with `uuid,ageRange=1` (then a trailing comma),
\* `ageRange=2` and `required,idCard`
Profile ==
    TypeTok("Profile", "struct",
            <<<<Json, Validate(<<Rule("uuid", ""), Rule("ageRange", "1"), Rule("", "")>>)>>,
              <<Validate(<<Rule("ageRange", "2")>>)>>,
              <<Json, Validate(<<Rule("required", ""), Rule("idCard", "")>>)>>>>)

\* type Config struct { Path string `json:"path"`; Draft string `validate:""`; n int }
Config ==
    TypeTok("Config", "struct", <<<<Json>>, <<Validate(<<>>)>>, <<>>>>)

\* type Ticket struct { Code string `json:"code" validate:"Uuid"` }
Ticket ==
    TypeTok("Ticket", "struct", <<<<Json, Validate(<<Rule("Uuid", "")>>)>>>>)

\* type IdReq int64
IdReq == TypeTok("IdReq", "other", <<>>)

\* type PingReq struct {}
PingReq == TypeTok("PingReq", "struct", <<>>)

\* func (req *LoginReq) Validate() error { ... }, written by the developer
\* with a receiver name of their own
HandMethod(name) == Tok("method", name, "recv")

\* func (r *PingReq)  Validate() error { ... }: the signature the tool writes,
\* with other white space
SpacedMethod(name) == Tok("method", name, "ws")

\* a source file: an optional header comment, the package clause, an optional
\* import block, the declarations
SourceFile(hdr, imports, decls) ==
    (IF hdr THEN <<Tok("comment", "hdr", "")>> ELSE <<>>)
    \o <<Tok("package", "", "")>>
    \o (IF imports = <<>> THEN <<>> ELSE ImportBlock(imports))
    \o decls

\* a source file that is not valid Go: a stray closing brace after the struct
BrokenSource == SourceFile(TRUE, <<>>, <<LoginReq, CloseTop>>)

\* validation.go as earlier versions of the tool wrote it
\* (test/example/validation.go): no rule map, registrations in init, a
\* function customValidation
OldFormatRegistry ==
    <<Tok("package", "", "")>>
    \o ImportBlock(<<"regexp", "validator">>)
    \o <<ValidateVarTok,
         Tok("initOpen", "", ""), Tok("stmt", "registerCall", "custom_validation"),
         Tok("stmt", "registerCall", "mobile"),
         Tok("stmt", "registerCall", "idcard"), CloseTop,
         Tok("decl", "customValidation", "")>>
    \o BuiltInValidationFunc

Options(custom, translation, lang) ==
    [EnableCustomValidation |-> custom, EnableTranslation |-> translation,
     TranslationLanguage |-> lang]

OptionSet ==
    {Options(FALSE, FALSE, "zh"), Options(TRUE, FALSE, "zh"), Options(TRUE, TRUE, "zh"),
     Options(FALSE, TRUE, "zh_TW")}

CustomTagOrder == <<"Uuid", "ageRange", "idCard", "omitempty", "uuid">>

Reverse(s) == [i \in 1..Len(s) |-> s[Len(s) + 1 - i]]

\* the map iteration orders explored
Orders == {CustomTagOrder, Reverse(CustomTagOrder)}

Files == {"types.go", "user.go"}

\* the functions a developer fills in: a built-in one and a generated stub
FuncNameSet == {"Mobile", "Uuid"}

\* validation.go as the tool creates it for a file without custom rules
GeneratedRegistry ==
    Format(RemoveFirstValidateVar(
        NewRegistryContent({}, {}, Options(FALSE, FALSE, "zh"), CustomTagOrder)))

Init ==
    /\ src \in {[f \in Files |-> IF f = "types.go" THEN a ELSE b] :
                  a \in {SourceFile(TRUE, <<>>, <<LoginReq>>),
                         SourceFile(TRUE, <<>>, <<Item, Config>>),
                         SourceFile(FALSE, <<"fmt">>, <<ItemReq, IdReq, PingReq>>),
                         SourceFile(TRUE, <<"validator">>,
                                    <<LoginReq, PingReq, HandMethod("LoginReq"),
                                      SpacedMethod("PingReq")>>),
                         SourceFile(TRUE, <<>>, <<PingReq, ItemReq>>),
                         SourceFile(TRUE, <<>>, <<Ticket>>),
                         BrokenSource},
                  b \in {NoFile, SourceFile(TRUE, <<>>, <<Profile>>)}}
    /\ val \in {NoFile, OldFormatRegistry, GeneratedRegistry}
    /\ trans = NoFile
    /\ last = NoLast
    /\ walk = NoWalk
    /\ gen = NoGen
    /\ runs = 0
    /\ edits = 0

Run == \E f \in Files, o \in OptionSet, ord \in Orders : ProcessTypesFile(f, o, ord)

Edit ==
    \/ \E n \in FuncNameSet, b \in HandBodies : HandEdit(n, b)
    \/ HandEditMessage("mobile")

Next == Run \/ Edit

Spec == Init /\ [][Next]_vars

\* the plugin entry point: whole directory walks, and hand edits between them
Plugin == \E o \in OptionSet, ords \in [Files -> Orders] : ProcessPlugin(o, ords)

PluginNext == Plugin \/ Edit

PluginSpec == Init /\ [][PluginNext]_vars

\* calls of GenerateValidationCode on bounded arguments
GenFuncNames == GenValidators \cup {"validateEmail"}

ExistingFuncsSet ==
    UNION {[S -> {"func", "text"}] : S \in SUBSET GenFuncNames}

GenInit ==
    /\ src = [f \in Files |-> NoFile]
    /\ val = NoFile
    /\ trans = NoFile
    /\ last = NoLast
    /\ walk = NoWalk
    /\ runs = 0
    /\ edits = 0
    /\ gen \in {[NoGen EXCEPT !.custom = c, !.existingFuncs = e] :
                  c \in BOOLEAN, e \in ExistingFuncsSet}

GenNext == GenerateValidationCodeCall

GenSpec == GenInit /\ [][GenNext]_vars

\* ------------------------------------------------------------ properties
\* the last invocation returned nil
ReturnedNil == last.status \in {"ok", "early"}

\* the last invocation returned nil after its writes (it did not return early)
Completed == last.status = "ok"

HasEntry(s, tag) == \E i \in 1..Len(s) : s[i].k = "entry" /\ s[i].a = tag
HasFunc(s, name) == \E i \in 1..Len(s) : s[i].k = "funcHead" /\ s[i].a = name
FuncCount(s, name) == Count(s, LAMBDA t : t.k = "funcHead" /\ t.a = name)
EntryCount(s, tag) == Count(s, LAMBDA t : t.k = "entry" /\ t.a = tag)
MethodCount(s, name) == Count(s, LAMBDA t : t.k = "method" /\ t.a = name)

AllFuncNames == {"Mobile", "IdCard", "Uuid", "AgeRange", "Omitempty"}
AllTags == {"mobile", "idcard", "uuid", "ageRange", "idCard", "omitempty", "Uuid"}
TypeNames ==
    {"LoginReq", "Item", "ItemReq", "Profile", "Config", "IdReq", "PingReq", "Ticket"}

\* the built-in rule names of the specification
SpecBuiltIn == BuiltInValidators \cup {"omitempty"}

\* the rule names the fields of the candidate types of a file reference
ReferencedRules(file) ==
    UNION {UNION {{extractValidateTag(file[i].d[j])[n].n :
                     n \in 1..Len(extractValidateTag(file[i].d[j]))} :
                  j \in 1..Len(file[i].d)} :
           i \in {x \in 1..Len(file) : IsCandidate(file[x])}} \ {""}

\* the tags of a sequence are in strictly increasing lexicographic order
IsSortedTags(ts) == \A i \in 1..(Len(ts) - 1) : Rank(ts[i]) < Rank(ts[i + 1])

\* the custom map entries of text w that text old does not have, in file order
NewEntries(w, old) ==
    LET es == SelectSeq(w, LAMBDA t : /\ t.k = "entry"
                                      /\ t.a \notin {"mobile", "idcard"}
                                      /\ ~HasEntry(old, t.a))
    IN [i \in 1..Len(es) |-> es[i].a]

\* the generated stubs of text w that text old does not have, in file order
NewStubs(w, old) ==
    LET ds == SelectSeq(w, LAMBDA t : /\ IsAutoDoc(t)
                                      /\ ~\E i \in 1..Len(old) : old[i] = t)
    IN [i \in 1..Len(ds) |-> ds[i].b]

\* the registry text the last invocation emitted: the created file, or the
\* merged text it wrote for an existing file
Emitted == IF last.preVal = NoFile THEN val ELSE last.firstWrite

\* C1: a second invocation on the same file with the same options, after a
\* first one that returned without error, leaves the source file,
\* validation.go and (with translation enabled) translations.go unchanged.
C1_Idempotent ==
    last.repeat =>
        /\ src[last.f] = last.preSrc
        /\ val = last.preVal
        /\ (last.options.EnableTranslation => trans = last.preTrans)

\* C2: after an invocation with custom validation enabled that returns
\* without error, every custom rule tag referenced by a candidate type has a
\* map entry and a validate<Tag> function in validation.go.
C2_NoneMissing ==
    (Completed /\ last.options.EnableCustomValidation) =>
        \A t \in ReferencedRules(last.preSrc) \ (SpecBuiltIn \cup BuiltInCustomValidators) :
            HasEntry(val, t) /\ HasFunc(val, Title(t))

\* C3: a hand-edited function body of validation.go is unchanged after an
\* invocation whose candidate types still reference the function's tag.
C3_HandEditsKept ==
    \A n \in FuncNameSet :
        (/\ ReturnedNil
         /\ IsHandBody(FuncBody(last.preVal, n))
         /\ LowerFirst(n) \in ReferencedRules(last.preSrc))
        => FuncBody(val, n) = FuncBody(last.preVal, n)

\* C4: validation.go never holds two declarations of one validate<Tag>
\* function nor two map entries of one tag.
C4_NoDuplicates ==
    /\ \A n \in AllFuncNames : FuncCount(val, n) <= 1
    /\ \A t \in AllTags : EntryCount(val, t) <= 1

\* C5: after an invocation that returns without error, every candidate type
\* of the source file has exactly one Validate method in that file.
C5_ExactlyOneMethod ==
    Completed =>
        \A i \in 1..Len(last.preSrc) :
            IsCandidate(last.preSrc[i]) => MethodCount(src[last.f], last.preSrc[i].a) = 1

\* C6: a type that already has a Validate method, whatever the white space or
\* the receiver name of its signature, gets no second one.
C6_NoSecondMethod ==
    \A n \in TypeNames :
        MethodCount(last.preSrc, n) >= 1 =>
            MethodCount(src[last.f], n) = MethodCount(last.preSrc, n)

\* C7: after an invocation that returns without error, validation.go holds
\* the map entries and the functions of mobile and idcard.
C7_BuiltInsPresent ==
    Completed =>
        /\ HasEntry(val, "mobile") /\ HasEntry(val, "idcard")
        /\ HasFunc(val, "Mobile") /\ HasFunc(val, "IdCard")

\* C8: the map entries and the stubs an invocation emits for the tags that
\* lack them are in lexicographic order of tag name, in a created file and in
\* a merged one, whatever the order in which the tags were collected.
C8_SortedEmission ==
    (last.status \in {"ok", "sourceFormatError"} /\ Emitted # NoFile) =>
        /\ IsSortedTags(NewEntries(Emitted, last.preVal))
        /\ IsSortedTags(NewStubs(Emitted, last.preVal))

\* an invocation has added two entries and two stubs to an existing registry
C8_Witness ==
    /\ Completed
    /\ last.preVal # NoFile
    /\ Len(NewEntries(last.firstWrite, last.preVal)) >= 2
    /\ Len(NewStubs(last.firstWrite, last.preVal)) >= 2

\* the candidate types as the specification defines them
SpecCandidate(decl) ==
    /\ decl.b = "struct"
    /\ \/ HasSuffixReq(decl.a)
       \/ \E j \in 1..Len(decl.d) :
             \E p \in 1..Len(decl.d[j]) :
                decl.d[j][p].key = "validate" /\ decl.d[j][p].rules # <<>>

\* C9: a type declaration gets a Validate method if and only if it is a
\* struct whose name ends with Req or one of whose fields has a non-empty
\* validate annotation.
C9_CandidateSelection ==
    ReturnedNil =>
        \A i \in 1..Len(last.preSrc) :
            IsTypeDecl(last.preSrc[i]) =>
                (HasValidateMethodText(src[last.f], last.preSrc[i].a)
                    <=> SpecCandidate(last.preSrc[i]))

\* a struct without the Req suffix got its method and another type did not
C9_Witness ==
    /\ Completed
    /\ \E i, j \in 1..Len(last.preSrc) :
          /\ IsTypeDecl(last.preSrc[i]) /\ ~HasSuffixReq(last.preSrc[i].a)
          /\ ~HasValidateMethodText(last.preSrc, last.preSrc[i].a)
          /\ HasValidateMethodText(src[last.f], last.preSrc[i].a)
          /\ IsTypeDecl(last.preSrc[j])
          /\ ~HasValidateMethodText(src[last.f], last.preSrc[j].a)

\* C10: no map entry and no function is generated for a rule name of the
\* built-in set {required, ..., alphanum, omitempty}.
C10_BuiltInNeverGenerated ==
    \A t \in SpecBuiltIn : ~HasEntry(val, t) /\ ~HasFunc(val, Title(t))

ImportCount(s, path) ==
    Count(s, LAMBDA t : t.k \in {"import", "importLine"} /\ t.a = path)
VarCount(s) == Count(s, IsValidateVar)

\* the last invocation appended a Validate method to the source file
AppendedMethod ==
    \E n \in TypeNames : MethodCount(src[last.f], n) > MethodCount(last.preSrc, n)

\* C11: after an invocation that appends a Validate method, the source file
\* holds the validator import and `var validate = validator.New()`, each
\* exactly once, with or without an import block and wherever the package
\* clause sits.
C11_SharedInstanceOnce ==
    (Completed /\ AppendedMethod) =>
        /\ ImportCount(src[last.f], "validator") = 1
        /\ VarCount(src[last.f]) = 1

TransTags == AllTags

HasRegistration(t, tag) ==
    t # NoFile /\ \E i \in 1..Len(t) : t[i].k = "transReg" /\ t[i].a = tag

RegistrationCount(t, tag) ==
    IF t = NoFile THEN 0
    ELSE Count(t, LAMBDA x : x.k = "transReg" /\ x.a = tag)

Registrations(t) ==
    IF t = NoFile THEN {} ELSE {t[i] : i \in {x \in 1..Len(t) : t[x].k = "transReg"}}

TranslationRun ==
    /\ Completed
    /\ last.options.EnableTranslation
    /\ last.options.EnableCustomValidation

\* C13: after one completed invocation with custom validation and translation
\* enabled and no translations file beforehand, the translations file exists
\* and holds a registration for every custom tag the source references.
C13_TranslationComplete ==
    (TranslationRun /\ last.preTrans = NoFile) =>
        /\ trans # NoFile
        /\ \A tag \in ReferencedRules(last.preSrc) \ SpecBuiltIn :
              HasRegistration(trans, tag)

\* C14: the translations file never holds two registrations of one tag, and
\* an invocation leaves every registration of an existing translations file
\* exactly as it was (a message rewritten by hand included).
C14_TranslationsKept ==
    /\ \A tag \in TransTags : RegistrationCount(trans, tag) <= 1
    /\ (last.status # "none" /\ last.preTrans # NoFile) =>
          /\ trans # NoFile
          /\ Registrations(last.preTrans) \subseteq Registrations(trans)

\* a translation-enabled invocation ran over a translations file whose mobile
\* message had been rewritten by hand
C14_Witness ==
    /\ TranslationRun
    /\ last.preTrans # NoFile
    /\ Tok("transReg", "mobile", "hand") \in Registrations(last.preTrans)
    /\ Tok("transReg", "mobile", "hand") \in Registrations(trans)

\* ------------------------------------------------- format failures

\* C15: when the text generated for a file fails formatting, the invocation
\* returns an error and that file is on disk what it was before the invocation.
C15_FormatAllOrNothing ==
    (last.status # "none" /\ last.failed # "none") =>
        /\ ~ReturnedNil
        /\ last.failed = "registry" => val = last.preVal
        /\ last.failed = "source" => src[last.f] = last.preSrc

\* ------------------------------------------------- parse failures

\* C16: an invocation on a source file that does not parse returns the parse
\* error and creates or modifies no file.
C16_ParseFailureNoEffect ==
    (last.status # "none" /\ ~FormatOK(last.preSrc)) =>
        /\ last.status = "parseError"
        /\ src[last.f] = last.preSrc
        /\ val = last.preVal
        /\ trans = last.preTrans

\* a translation-enabled invocation failed to parse its source file and left
\* the directory without translations file
C16_Witness ==
    /\ last.status = "parseError"
    /\ last.options.EnableTranslation
    /\ src[last.f] = BrokenSource
    /\ trans = NoFile

\* ------------------------------------------------------ plugin walk

\* the files of the walk that come after its k-th file
LaterFiles(k) ==
    {WalkFiles(walk.pre)[i] : i \in (k + 1)..Len(WalkFiles(walk.pre))}

C17_EarlierWritesKept ==
    /\ walk.ran
    /\ Len(walk.visited) = 2
    /\ IsError(walk.err)
    /\ src["types.go"] # walk.pre["types.go"]

\* ------------------------------------------- GenerateValidationCode

HasGenFunc(code, name) ==
    \E i \in 1..Len(code) : code[i].k = "funcHead" /\ code[i].a = name

\* the RegisterValidation call for tag stands in func init
HasGenRegistration(code, tag) ==
    LET i == FirstIdx(code, 1, LAMBDA t : t.k = "initOpen")
        e == IF i = 0 THEN 0
             ELSE FirstIdx(code, i, LAMBDA t : t = CloseTop)
    IN  /\ i # 0
        /\ e # 0
        /\ \E j \in i..e : code[j] = Tok("stmt", "registerCall", tag)

\* the validators GenerateValidationCode has to supply for the call in gen
GenRequired ==
    {n \in GenValidators :
        /\ n \notin DOMAIN gen.existingFuncs
        /\ n = "customValidation" => gen.custom}

\* C18: for each of customValidation (custom validation enabled),
\* validateMobile and validateIdCard that is not a key of existingFuncs, the
\* text GenerateValidationCode returns holds the function definition and its
\* RegisterValidation call in init; with no existing function and custom
\* validation enabled that is all three.
C18_GeneratesMissingValidators ==
    gen.called =>
        /\ \A n \in GenRequired :
              /\ HasGenFunc(gen.code, n)
              /\ HasGenRegistration(gen.code, GenTag(n))
        /\ (gen.custom /\ DOMAIN gen.existingFuncs = {}) =>
              GenRequired = GenValidators

\* a call with custom validation enabled and validateMobile among the
\* existing functions returned text that defines customValidation
C18_Witness ==
    /\ gen.called
    /\ gen.custom
    /\ DOMAIN gen.existingFuncs = {"validateMobile"}
    /\ HasGenFunc(gen.code, "customValidation")
    /\ HasGenRegistration(gen.code, "custom_validation")

\* ------------------------------------------------- merge and final write

HasStub(s, tag) == \E i \in 1..Len(s) : IsAutoDoc(s[i]) /\ s[i].b = tag

\* the invocation merged into an existing validation.go and wrote the result
MergeWritten ==
    /\ Completed
    /\ last.preVal # NoFile
    /\ last.firstWrite # NoFile

\* C19: the map entries and the stubs that the merge step added to an existing
\* validation.go and wrote are in validation.go when the invocation returns.
C19_MergePersists ==
    MergeWritten =>
        /\ \A t \in Range(NewEntries(last.firstWrite, last.preVal)) : HasEntry(val, t)
        /\ \A t \in Range(NewStubs(last.firstWrite, last.preVal)) : HasStub(val, t)

\* validation.go existed before the invocation without a rule map that the
\* merge recognises
OldFormatBefore ==
    /\ Completed
    /\ last.preVal # NoFile
    /\ MapMatchSpan(last.preVal).from = 0

\* the names of the functions of text s that the extraction pattern recovers
RecoveredNames(s) ==
    {t.a : t \in {x \in Range(RecoveredFuncs(s)) : x.k = "funcHead"}}

\* text w holds the rule map with mobile, idcard and the custom tags the
\* source file requires, and the functions recovered from text old unchanged
RegeneratedFrom(w, old) ==
    /\ MapMatchSpan(w).from # 0
    /\ HasEntry(w, "mobile") /\ HasEntry(w, "idcard")
    /\ last.options.EnableCustomValidation =>
          \A t \in ReferencedRules(last.preSrc)
                     \ (SpecBuiltIn \cup BuiltInCustomValidators) : HasEntry(w, t)
    /\ \A n \in RecoveredNames(old) : FuncBody(w, n) = FuncBody(old, n)

\* C20: when validation.go exists without a recognisable rule map, then after
\* the invocation it holds the rule map with mobile, idcard and an entry for
\* every required custom tag, and every recovered function body unchanged.
C20_FallbackRegenerates == OldFormatBefore => RegeneratedFrom(val, last.preVal)

\* ------------------------------------------------- writes per invocation

\* C21: an invocation writes the source file, validation.go and
\* translations.go at most once each.
C21_WrittenAtMostOnce ==
    /\ last.writes.src <= 1
    /\ last.writes.val <= 1
    /\ last.writes.trans <= 1

\* ------------------------------------------------- order of the methods

\* the type names of the inputs in byte-wise (strings.Compare) order
TypeLexOrder ==
    <<"Config", "IdReq", "Item", "ItemReq", "LoginReq", "PingReq", "Profile",
      "Ticket">>

TypeRank(n) == CHOOSE i \in 1..Len(TypeLexOrder) : TypeLexOrder[i] = n

\* the receiver types of the Validate methods the last invocation appended
\* to the end of its source file, in file order
AppendedMethods ==
    LET now == SelectSeq(src[last.f], LAMBDA t : t.k = "method")
        before == SelectSeq(last.preSrc, LAMBDA t : t.k = "method")
    IN  [i \in 1..(Len(now) - Len(before)) |-> now[Len(before) + i].a]

\* C22: the Validate methods an invocation appends to a source file are in
\* lexicographic order of type name, whatever the order of the declarations.
C22_MethodsSorted ==
    Completed =>
        \A i \in 1..(Len(AppendedMethods) - 1) :
            TypeRank(AppendedMethods[i]) < TypeRank(AppendedMethods[i + 1])

\* ------------------------------------------------- injector frame

\* every candidate type of the source file had a Validate method before the
\* last invocation
AllMethodsPresent ==
    /\ last.status \notin {"none", "parseError"}
    /\ \A i \in 1..Len(last.preSrc) :
          IsCandidate(last.preSrc[i]) => MethodCount(last.preSrc, last.preSrc[i].a) >= 1

\* C23: when every candidate type already has its Validate method, the
\* invocation does not write the source file, also when the file lacks the
\* validator import or the validate variable.
C23_SourceUntouched ==
    AllMethodsPresent =>
        /\ last.writes.src = 0
        /\ src[last.f] = last.preSrc

\* ------------------------------------------------- translation upgrade

\* the last invocation ran with translation enabled on a validation.go that
\* has the rule map and no translator code
UpgradeRun ==
    /\ last.status # "none"
    /\ last.options.EnableTranslation
    /\ last.preVal # NoFile
    /\ ~hasTranslationOf(last.preVal)
    /\ MapMatchSpan(last.preVal).from # 0
    /\ FormatOK(last.preSrc)
    /\ last.status # "early"

\* text s holds the translator variables, the translator initialisation of
\* the language inside init, and the TranslateError function
HasTranslatorCode(s, lang) ==
    /\ \E i \in 1..Len(s) : s[i].k = "transVars"
    /\ \E i \in 1..Len(s) : s[i].k = "translateErr"
    /\ LET i == FirstIdx(s, 1, LAMBDA t : t.k = "initOpen")
           e == IF i = 0 THEN 0 ELSE FirstIdx(s, i, LAMBDA t : t = CloseTop)
       IN  /\ i # 0
           /\ e # 0
           /\ \E j \in i..e : s[j] = Tok("transInit", LangCase(lang), "")

\* C24: an invocation with translation enabled on a validation.go generated
\* without translation returns without error and leaves a validation.go with
\* the translator variables, the translator initialisation in init, the
\* TranslateError function and every validate function it had, unchanged.
C24_TranslationUpgrade ==
    UpgradeRun =>
        /\ ReturnedNil
        /\ HasTranslatorCode(val, last.options.TranslationLanguage)
        /\ \A n \in AllFuncNames :
              HasFunc(last.preVal, n) =>
                  /\ HasFunc(val, n)
                  /\ FuncBody(val, n) = FuncBody(last.preVal, n)

\* ------------------------------------------------- language selection

\* the translator each language value of the specification selects
SpecLanguages == {"zh", "zh_TW", "en"}

SpecTranslator(lang) ==
    CASE lang = "zh_TW" -> <<"locales/zh_Hant_TW", "translations/zh_tw", "zh_tw">>
      [] lang = "en" -> <<"locales/en", "translations/en", "en">>
      [] OTHER -> <<"locales/zh", "translations/zh", "zh">>

\* text s imports and initialises the translator tr
UsesTranslator(s, tr) ==
    /\ ImportCount(s, tr[1]) = 1
    /\ ImportCount(s, tr[2]) = 1
    /\ \E i \in 1..Len(s) : s[i] = Tok("transInit", tr[3], "")

\* the last invocation created validation.go with translation enabled
CreatedWithTranslation ==
    /\ Completed
    /\ last.preVal = NoFile
    /\ last.options.EnableTranslation

\* C25: a registry generated with translation enabled imports and
\* initialises the Simplified Chinese translator for zh, the Traditional
\* Chinese one (zh_Hant_TW) for zh_TW and the English one for en.
C25_LanguageSelected ==
    (CreatedWithTranslation /\ last.options.TranslationLanguage \in SpecLanguages) =>
        UsesTranslator(val, SpecTranslator(last.options.TranslationLanguage))

\* ------------------------------------------------- retries

\* a failed format call in the sequence a is the last call of the sequence
FailureIsLast(a) == \A i \in 1..Len(a) : ~a[i] => i = Len(a)

\* C26: within an invocation a formatting failure for a file is not followed
\* by another formatting attempt for that file, and the failure is returned.
C26_NoRetry ==
    \A file \in {"src", "val"} :
        /\ FailureIsLast(last.attempts[file])
        /\ (\E i \in 1..Len(last.attempts[file]) : ~last.attempts[file][i])
              => ~ReturnedNil

\* ------------------------------------------------- map iteration order

\* C27: for fixed inputs the text GenerateValidationCode emits is one
\* determined value: it is the same for every iteration order of
\* existingFuncs.
C27_OrderDoesNotLeak ==
    gen.called =>
        \A order \in MapOrders(DOMAIN gen.existingFuncs) :
            GenerateValidationCode(gen.custom, gen.existingFuncs, order).code
                = gen.code

\* ------------------------------------------------- one validate variable

\* the declarations of `validate` in the Go files of the directory: the
\* source files and validation.go
DirVarCount ==
    (IF src["types.go"] = NoFile THEN 0 ELSE VarCount(src["types.go"]))
    + (IF src["user.go"] = NoFile THEN 0 ELSE VarCount(src["user.go"]))
    + (IF val = NoFile THEN 0 ELSE VarCount(val))

\* the last invocation returned no error and its source file has a
\* candidate type
CandidateRun ==
    /\ last.status \in {"ok", "early"}
    /\ \E i \in 1..Len(last.preSrc) : IsCandidate(last.preSrc[i])

\* C28: after an invocation that returns no error on a directory with a
\* candidate type, `validate` is declared exactly once across the Go files of
\* the directory.
C28_OneValidateVar == CandidateRun => DirVarCount = 1

\* ------------------------------------------------- registration

\* C29: every validation function that stands in the text
\* GenerateValidationCode returns, newly generated or carried over from
\* existingFuncs, has its RegisterValidation call in init.
C29_RegistrationFollowsPresence ==
    (gen.called /\ ~gen.err) =>
        \A n \in GenValidators :
            HasGenFunc(gen.code, n) => HasGenRegistration(gen.code, GenTag(n))

\* ------------------------------------------------- tag round trip

\* C30: for every custom tag t of the processed file whose function
\* validate<Title(t)> stands in validation.go, mapping that function name back
\* to a tag as the scan of the existing registry does yields t again.
C30_TagRoundTrip ==
    (Completed /\ last.options.EnableCustomValidation) =>
        \A t \in sourceCustomTags(last.preSrc, last.options) :
            HasFunc(val, Title(t)) => LowerFirst(Title(t)) = t

====
